---- MODULE Spec2Model ----
(***************************************************************************)
(* newtemp.sh: an ephemeral file-drop service (src/src/main.rs).           *)
(* The registry `entries` is a HashMap behind a tokio Mutex; upload,       *)
(* download and the background sweeper (purge_expired) contend for it and  *)
(* do their file I/O outside the lock.  Every await point at which another *)
(* task can observe or change shared state is a step boundary; the code    *)
(* from taking the lock to dropping it has no await point and is a step.   *)
(***************************************************************************)
EXTENDS Integers, FiniteSets, Sequences, TLC

\* ---- bounds of the model ------------------------------------------------
NumUploads == 2       \* upload requests (each draws a fresh uuid)
NumDownloads == 2     \* download workers (requests in flight at once)
MaxBudget == 2        \* MAX_DOWNLOADS ranges over 0..MaxBudget
MaxTtl == 2           \* DEFAULT_TTL ranges over 0..MaxTtl clock units
MaxClock == 1         \* Instant::now() ranges over 0..MaxClock

Uploads == 1..NumUploads
Downloads == 1..NumDownloads
\* Uuid::new_v4() of upload u; the download token and the file path
\* (storage_dir.join(download_id)) are both determined by it.
Ids == Uploads

\* Option<String> of the multipart "password" field; NoPassword is None.
NoPassword == "<none>"
Passwords == {"", "pw"}
Provided == {NoPassword, "", "pw"}

\* The registry mutex when no task holds it.
Free == <<"free", 0>>

VARIABLES
    clock,                \* the monotonic clock behind Instant::now()
    config,               \* AppConfig: ttl, max_downloads
    upload_page_enabled,  \* state.config.upload_page_enabled
    upload_password,      \* state.config.upload_password
    entries,              \* AppState.entries: id -> FileEntry, present ids only
    lock,                 \* holder of the Mutex around entries
    files,                \* the storage directory: path -> "none" | "partial" | "full"
    up,                   \* one record per upload request
    dl,                   \* one record per download worker: its request in flight, or its last one
    sw,                   \* the cleanup task
    removed,              \* history: ids ever removed from the registry
    granted,              \* history: downloads granted per id
    undeleted             \* history: paths a delete_file call failed to remove

vars == <<clock, config, upload_page_enabled, upload_password, entries, lock,
          files, up, dl, sw, removed, granted, undeleted>>

\* ---- responses ---------------------------------------------------------------
\* Lines 89-111, AppError::into_response, and the Ok response of a handler:
\* the status code and the body text the client sees.
IntoResponse(resp) ==
    CASE resp = "not_found" -> <<404, "file not found">>
      [] resp = "no_file" -> <<400, "expected multipart field named 'file'">>
      [] resp = "unauthorized" -> <<401, "invalid upload password">>
      [] resp = "io_error" -> <<500, "internal storage error">>
      [] OTHER -> <<200, "">>

\* ---- the registry as a HashMap -------------------------------------------
Has(m, id) == id \in DOMAIN m
MapInsert(m, id, e) == [i \in (DOMAIN m) \cup {id} |-> IF i = id THEN e ELSE m[i]]
MapRemove(m, id) == [i \in (DOMAIN m) \ {id} |-> m[i]]

\* ---- the clock -------------------------------------------------------------
Tick ==
    /\ clock < MaxClock
    /\ clock' = clock + 1
    /\ UNCHANGED <<config, upload_page_enabled, upload_password, entries, lock,
                   files, up, dl, sw, removed, granted, undeleted>>

\* ---- delete_file -----------------------------------------------------------
\* The NotFound of a file already absent reported like any other io error.
DeleteFileNotFoundIsError(path, ok) ==
    /\ files' = IF ok THEN [files EXCEPT ![path] = "none"] ELSE files
    /\ undeleted' = IF ok /\ files[path] # "none" THEN undeleted
                     ELSE undeleted \cup {path}

\* fs::remove_file(path).  ok = TRUE: the file is gone afterwards (it was
\* removed, or was absent already and the NotFound error is ignored).
\* ok = FALSE: any other io error, logged; the file stays.
DeleteFile(path, ok) ==
    /\ ok \/ files[path] # "none"
    /\ files' = IF ok THEN [files EXCEPT ![path] = "none"] ELSE files
    /\ undeleted' = IF ok THEN undeleted ELSE undeleted \cup {path}

\* ---- upload ----------------------------------------------------------------
\* provided_password.as_deref().unwrap_or("")
UnwrapOrEmpty(p) == IF p = NoPassword THEN "" ELSE p

\* Lines 146-147
PasswordRejected(enabled, configured, provided) ==
    enabled /\ configured # UnwrapOrEmpty(provided)

\* History of an upload: no secret was required of it, or the shared secret
\* was given and is the configured one.
Authentic(enabled, configured, provided) ==
    enabled => (provided # NoPassword /\ provided = configured)

\* fs::write(&path, &data): "full" on success; a failed write leaves nothing
\* or a truncated file behind.
WriteOutcomes == {"full", "none", "partial"}

\* The result of the write dropped instead of returned.
WriteOkIgnored(written) == TRUE

\* Line 173: fs::write(..).await? returns the io error of a failed write.
WriteOk(written) == written = "full"

\* Lines 128-182: the multipart fields are read into memory, the password and
\* the presence of the file field are checked, the identifier `id` is drawn
\* (line 156), the payload is written to storage_dir/<id> (fs::write(..).await?),
\* and after a successful write expires_at = Instant::now() + ttl is computed.
UploadWriteId(u, id, password, has_file, written) ==
    /\ up[u].pc = "idle"
    /\ IF PasswordRejected(upload_page_enabled, upload_password, password)
       THEN /\ up' = [up EXCEPT ![u].pc = "done", ![u].resp = "unauthorized",
                        ![u].authentic = Authentic(upload_page_enabled, upload_password, password)]
            /\ files' = files
       ELSE IF ~has_file
       THEN /\ up' = [up EXCEPT ![u].pc = "done", ![u].resp = "no_file",
                        ![u].authentic = Authentic(upload_page_enabled, upload_password, password)]
            /\ files' = files
       ELSE /\ files' = [files EXCEPT ![id] = written]
            /\ up' = IF WriteOk(written)
                     THEN [up EXCEPT ![u].pc = "lock", ![u].written = written,
                             ![u].id = id,
                             ![u].authentic = Authentic(upload_page_enabled, upload_password, password),
                             ![u].expires_at = clock + config.ttl]
                     ELSE [up EXCEPT ![u].pc = "done", ![u].resp = "io_error",
                             ![u].authentic = Authentic(upload_page_enabled, upload_password, password),
                             ![u].id = id,
                             ![u].written = written]
    /\ UNCHANGED <<clock, config, upload_page_enabled, upload_password, entries,
                   lock, dl, sw, removed, granted, undeleted>>

\* Line 156 with Uuid::new_v4() returning a value no other upload was given:
\* the identifier of upload u is u, and no other task names the path before
\* the entry is inserted, so the write is one step.
UploadWrite(u, password, has_file, written) ==
    UploadWriteId(u, u, password, has_file, written)

\* Lines 176-182
NewEntry(u) ==
    [path |-> up[u].id, expires_at |-> up[u].expires_at,
     remaining_hits |-> config.max_downloads]

\* Lines 184-196: state.entries.lock().await.insert(..); the guard is a
\* temporary dropped at the end of the statement; then the response is built.
UploadInsert(u) ==
    /\ up[u].pc = "lock"
    /\ lock = Free
    /\ entries' = MapInsert(entries, up[u].id, NewEntry(u))
    /\ lock' = Free
    /\ up' = [up EXCEPT ![u].pc = "done", ![u].resp = "ok",
                        ![u].remaining_downloads = config.max_downloads]
    /\ UNCHANGED <<clock, config, upload_page_enabled, upload_password, files,
                   dl, sw, removed, granted, undeleted>>

\* ---- download --------------------------------------------------------------
\* A worker with no request in flight.  id, was_removed, outcome and seen
\* record what the critical section of its last request was asked and found.
DlInit == [pc |-> "idle", id |-> 1, path |-> 1, last_hit |-> FALSE,
           resp |-> "none", outcome |-> "none", seen |-> 0,
           was_removed |-> FALSE]

\* The deadline instant itself taken as still live.
IsExpiredStrict(now, expires_at) == now > expires_at

\* Line 209: Instant::now() >= entry.expires_at
IsExpired(now, expires_at) == now >= expires_at

\* The last hit recognised one download too late.
IsLastHitOffByOne(remaining_hits) == remaining_hits < 1

\* Line 218: entry.remaining_hits <= 1
IsLastHit(remaining_hits) == remaining_hits <= 1

\* An id without an entry served from the file still on disk.
DownloadAbsentServesFile(d, id) ==
    /\ dl' = [dl EXCEPT ![d] =
                IF files[id] = "full"
                THEN [DlInit EXCEPT !.pc = "read", !.id = id, !.path = id,
                                    !.outcome = "granted",
                                    !.was_removed = (id \in removed)]
                ELSE [DlInit EXCEPT !.id = id, !.resp = "not_found",
                                    !.outcome = "absent",
                                    !.was_removed = (id \in removed)]]
    /\ UNCHANGED <<entries, removed, granted>>

\* Lines 205-207: no entry for the id; Err(NotFound), the guard is dropped.
DownloadAbsent(d, id) ==
    /\ dl' = [dl EXCEPT ![d] = [DlInit EXCEPT !.id = id, !.resp = "not_found",
                                  !.outcome = "absent",
                                  !.was_removed = (id \in removed)]]
    /\ UNCHANGED <<entries, removed, granted>>

\* Lines 209-211: the entry is past its deadline; remove it, drop the guard.
DownloadExpired(d, id) ==
    /\ entries' = MapRemove(entries, id)
    /\ removed' = removed \cup {id}
    /\ granted' = granted
    /\ dl' = [dl EXCEPT ![d] = [DlInit EXCEPT !.pc = "delete_expired",
                                  !.id = id, !.path = entries[id].path,
                                  !.outcome = "expired",
                                  !.seen = entries[id].remaining_hits,
                                  !.was_removed = (id \in removed)]]

\* A download that is not the last one renewing the deadline of the entry.
DownloadGrantRenews(d, id) ==
    LET last_hit == IsLastHit(entries[id].remaining_hits) IN
    /\ entries' = IF last_hit THEN MapRemove(entries, id)
                  ELSE [entries EXCEPT ![id].remaining_hits = @ - 1,
                                       ![id].expires_at = clock + config.ttl]
    /\ removed' = IF last_hit THEN removed \cup {id} ELSE removed
    /\ granted' = [granted EXCEPT ![id] = @ + 1]
    /\ dl' = [dl EXCEPT ![d] = [DlInit EXCEPT !.pc = "read",
                                  !.id = id, !.path = entries[id].path,
                                  !.last_hit = last_hit,
                                  !.outcome = "granted",
                                  !.seen = entries[id].remaining_hits,
                                  !.was_removed = (id \in removed)]]

\* Lines 218-227: grant the download; the last hit removes the entry, any
\* other decrements remaining_hits; the guard is dropped.
DownloadGrant(d, id) ==
    LET last_hit == IsLastHit(entries[id].remaining_hits) IN
    /\ entries' = IF last_hit THEN MapRemove(entries, id)
                  ELSE [entries EXCEPT ![id].remaining_hits = @ - 1]
    /\ removed' = IF last_hit THEN removed \cup {id} ELSE removed
    /\ granted' = [granted EXCEPT ![id] = @ + 1]
    /\ dl' = [dl EXCEPT ![d] = [DlInit EXCEPT !.pc = "read",
                                  !.id = id, !.path = entries[id].path,
                                  !.last_hit = last_hit,
                                  !.outcome = "granted",
                                  !.seen = entries[id].remaining_hits,
                                  !.was_removed = (id \in removed)]]

\* Lines 203-227: the request for `id` takes the lock and runs the critical
\* section, which has no await point, up to drop(entries).
DownloadCheck(d, id) ==
    /\ dl[d].pc = "idle"
    /\ lock = Free
    /\ IF ~Has(entries, id) THEN DownloadAbsent(d, id)
       ELSE IF IsExpired(clock, entries[id].expires_at) THEN DownloadExpired(d, id)
       ELSE DownloadGrant(d, id)
    /\ lock' = Free
    /\ UNCHANGED <<clock, config, upload_page_enabled, upload_password, files,
                   up, sw, undeleted>>

\* A failure of the delete returned to the client in place of NotFound.
DownloadDeleteExpiredPropagates(d) ==
    /\ dl[d].pc = "delete_expired"
    /\ \E ok \in BOOLEAN :
          /\ DeleteFile(dl[d].path, ok)
          /\ dl' = [dl EXCEPT ![d].pc = "idle",
                              ![d].resp = IF ok THEN "not_found" ELSE "io_error"]
    /\ UNCHANGED <<clock, config, upload_page_enabled, upload_password, entries,
                   lock, up, sw, removed, granted>>

\* Lines 213-215: delete_file(&expired.path).await; Err(NotFound)
DownloadDeleteExpired(d) ==
    /\ dl[d].pc = "delete_expired"
    /\ \E ok \in BOOLEAN : DeleteFile(dl[d].path, ok)
    /\ dl' = [dl EXCEPT ![d].pc = "idle", ![d].resp = "not_found"]
    /\ UNCHANGED <<clock, config, upload_page_enabled, upload_password, entries,
                   lock, up, sw, removed, granted>>

\* The hit taken at the grant given back when the read fails.
DownloadReadRestores(d) ==
    /\ dl[d].pc = "read"
    /\ \/ /\ files[dl[d].path] = "full"
          /\ dl' = [dl EXCEPT ![d].pc = IF dl[d].last_hit THEN "delete_last" ELSE "idle",
                              ![d].resp = IF dl[d].last_hit THEN @ ELSE "ok"]
          /\ entries' = entries
       \/ /\ dl' = [dl EXCEPT ![d].pc = "idle", ![d].resp = "io_error"]
          /\ entries' = IF Has(entries, dl[d].id) /\ ~dl[d].last_hit
                        THEN [entries EXCEPT ![dl[d].id].remaining_hits = @ + 1]
                        ELSE entries
    /\ UNCHANGED <<clock, config, upload_page_enabled, upload_password,
                   lock, files, up, sw, removed, granted, undeleted>>

\* Line 229: fs::read(&metadata.path).await?  The read fails when the file is
\* gone, and may fail for any other io reason.
DownloadRead(d) ==
    /\ dl[d].pc = "read"
    /\ \/ /\ files[dl[d].path] = "full"
          /\ dl' = [dl EXCEPT ![d].pc = IF dl[d].last_hit THEN "delete_last" ELSE "idle",
                              ![d].resp = IF dl[d].last_hit THEN @ ELSE "ok"]
       \/ dl' = [dl EXCEPT ![d].pc = "idle", ![d].resp = "io_error"]
    /\ UNCHANGED <<clock, config, upload_page_enabled, upload_password, entries,
                   lock, files, up, sw, removed, granted, undeleted>>

\* Lines 230-248: delete_file(&metadata.path).await on the last hit, then Ok.
DownloadDeleteLast(d) ==
    /\ dl[d].pc = "delete_last"
    /\ \E ok \in BOOLEAN : DeleteFile(dl[d].path, ok)
    /\ dl' = [dl EXCEPT ![d].pc = "idle", ![d].resp = "ok"]
    /\ UNCHANGED <<clock, config, upload_page_enabled, upload_password, entries,
                   lock, up, sw, removed, granted>>

\* ---- the sweeper -----------------------------------------------------------
\* Lines 255-262: ticker.tick().await; let now = Instant::now();
SweepTick ==
    /\ sw.pc = "idle"
    /\ sw' = [sw EXCEPT !.pc = "lock", !.now = clock]
    /\ UNCHANGED <<clock, config, upload_page_enabled, upload_password, entries,
                   lock, files, up, dl, removed, granted, undeleted>>

\* An entry whose deadline is the instant of the sweep left for the next one.
SweepExpiredStrict(m, now) == {id \in DOMAIN m : m[id].expires_at < now}

\* Line 267: entry.expires_at <= now
SweepExpired(m, now) == {id \in DOMAIN m : m[id].expires_at <= now}

\* The file handed to delete_file with its entry left in the registry.
SweepRemoveKeepsEntry(expired, id) ==
    /\ id \in expired
    /\ UNCHANGED <<entries, removed>>
    /\ sw' = [sw EXCEPT !.pc = "delete", !.path = id, !.expired = expired \ {id}]
    /\ lock' = Free

\* drop(entries) of line 273 left out: the guard is still held at delete_file.
SweepRemoveHoldsLock(expired, id) ==
    /\ id \in expired
    /\ entries' = IF Has(entries, id) THEN MapRemove(entries, id) ELSE entries
    /\ removed' = IF Has(entries, id) THEN removed \cup {id} ELSE removed
    /\ sw' = [sw EXCEPT !.pc = "delete", !.path = id, !.expired = expired \ {id}]
    /\ lock' = <<"sweeper", 0>>

\* Lines 271-273, one turn of the loop with the lock held: entries.remove(&id);
\* drop(entries).  The Vec was collected from a HashMap iteration, so the
\* pair taken next is any of those left.
SweepRemove(expired, id) ==
    /\ id \in expired
    /\ entries' = IF Has(entries, id) THEN MapRemove(entries, id) ELSE entries
    /\ removed' = IF Has(entries, id) THEN removed \cup {id} ELSE removed
    /\ sw' = [sw EXCEPT !.pc = "delete", !.path = id, !.expired = expired \ {id}]
    /\ lock' = Free

\* Lines 263-273: take the lock, collect the expired (id, path) pairs and run
\* the loop up to its first await; with no pair the guard is dropped at the
\* end of the function.
SweepScan ==
    /\ sw.pc = "lock"
    /\ lock = Free
    /\ LET expired == SweepExpired(entries, sw.now) IN
       IF expired = {}
       THEN /\ sw' = [sw EXCEPT !.pc = "idle"]
            /\ lock' = Free
            /\ UNCHANGED <<entries, removed>>
       ELSE \E id \in expired : SweepRemove(expired, id)
    /\ UNCHANGED <<clock, config, upload_page_enabled, upload_password, files,
                   up, dl, granted, undeleted>>

\* Line 274: delete_file(&path).await
SweepDelete ==
    /\ sw.pc = "delete"
    /\ \E ok \in BOOLEAN : DeleteFile(sw.path, ok)
    /\ sw' = [sw EXCEPT !.pc = "relock"]
    /\ UNCHANGED <<clock, config, upload_page_enabled, upload_password, entries,
                   lock, up, dl, removed, granted>>

\* Lines 275-277: entries = state.entries.lock().await, then the next turn of
\* the loop; after the last pair the guard is dropped at the end of the
\* function.
SweepRelock ==
    /\ sw.pc = "relock"
    /\ lock = Free
    /\ IF sw.expired = {}
       THEN /\ sw' = [sw EXCEPT !.pc = "idle"]
            /\ lock' = Free
            /\ UNCHANGED <<entries, removed>>
       ELSE \E id \in sw.expired : SweepRemove(sw.expired, id)
    /\ UNCHANGED <<clock, config, upload_page_enabled, upload_password, files,
                   up, dl, granted, undeleted>>

\* ---- the system ------------------------------------------------------------
UpInit == [pc |-> "idle", id |-> 1, resp |-> "none", authentic |-> TRUE,
           written |-> "unset", expires_at |-> 0, remaining_downloads |-> 0]

SwInit == [pc |-> "idle", now |-> 0, expired |-> {}, path |-> 1]

\* main() up to axum::serve: the configuration is read, the registry is empty.
Boot ==
    /\ clock = 0
    /\ config \in [ttl : 0..MaxTtl, max_downloads : 0..MaxBudget]
    /\ entries = <<>>
    /\ lock = Free
    /\ files = [p \in Ids |-> "none"]
    /\ up = [u \in Uploads |-> UpInit]
    /\ dl = [d \in Downloads |-> DlInit]
    /\ sw = SwInit
    /\ removed = {}
    /\ granted = [id \in Ids |-> 0]
    /\ undeleted = {}

\* The service with the interactive upload surface disabled: no upload is
\* rejected for its password.  With the surface enabled an upload is either
\* rejected before it touches anything or proceeds as it does here.
Init ==
    /\ Boot
    /\ upload_page_enabled = FALSE
    /\ upload_password = ""

\* Every configuration of the upload surface and of the shared secret.
InitAuth ==
    /\ Boot
    /\ upload_page_enabled \in BOOLEAN
    /\ upload_password \in Passwords

Upload ==
    \/ \E u \in Uploads, password \in Provided, has_file \in BOOLEAN,
          written \in WriteOutcomes : UploadWrite(u, password, has_file, written)
    \/ \E u \in Uploads : UploadInsert(u)

Download ==
    \/ \E d \in Downloads, id \in Ids : DownloadCheck(d, id)
    \/ \E d \in Downloads : DownloadDeleteExpired(d)
    \/ \E d \in Downloads : DownloadRead(d)
    \/ \E d \in Downloads : DownloadDeleteLast(d)

Sweeper ==
    \/ SweepTick
    \/ SweepScan
    \/ SweepDelete
    \/ SweepRelock

Next ==
    \/ Tick
    \/ Upload
    \/ Download
    \/ Sweeper

Spec == Init /\ [][Next]_vars

\* The upload handler alone, under every configuration of the upload surface.
NextUpload ==
    \/ Tick
    \/ Upload

SpecUpload == InitAuth /\ [][NextUpload]_vars

\* Uuid::new_v4() is 122 random bits and nothing in upload() compares the
\* value drawn with the keys of the registry: here the draw of line 156 is any
\* identifier, one already given out included.
UploadAnyId ==
    \E u \in Uploads, id \in Ids, password \in Provided, has_file \in BOOLEAN,
       written \in WriteOutcomes : UploadWriteId(u, id, password, has_file, written)

NextAnyId ==
    \/ Tick
    \/ UploadAnyId
    \/ \E u \in Uploads : UploadInsert(u)
    \/ Download

SpecAnyId == Init /\ [][NextAnyId]_vars

\* The service under the scheduling the runtime gives.  The cleanup task is
\* spawned once and loops on its ticker for the life of the process (lines
\* 251-259); the runtime keeps scheduling it and the mutex is handed out in
\* FIFO order, so a step of it that stays possible is eventually taken.  A
\* download that has removed an expired entry calls delete_file with no await
\* point in between (lines 210-213).  Requests need not arrive, the clock need
\* not reach any instant, and a request in flight may be abandoned.
SpecLive ==
    /\ Init
    /\ [][Next]_vars
    /\ WF_vars(Sweeper)
    /\ \A d \in Downloads : WF_vars(DownloadDeleteExpired(d))

TypeOK ==
    /\ clock \in 0..MaxClock
    /\ DOMAIN entries \subseteq Ids
    /\ \A id \in DOMAIN entries : entries[id].remaining_hits \in 0..MaxBudget
    /\ lock = Free
    /\ \A id \in Ids : granted[id] \in 0..(MaxBudget + 1)
\* ---- what the checks below talk about ------------------------------------
\* The step in which worker d runs the critical section of a download of id.
CheckStep(d, id) ==
    /\ dl[d].pc = "idle"
    /\ dl'[d] # dl[d]
    /\ dl'[d].id = id

\* C1: two download requests for an entry whose remaining budget is 1 and
\* that is not expired: the one that finds the budget at 1 is granted as the
\* terminal download, the other finds no entry and returns NotFound; the two
\* are never both granted.
C1_OneTerminalGrant ==
    \A d1, d2 \in Downloads :
        ( /\ d1 # d2
          /\ dl[d1].id = dl[d2].id
          /\ dl[d1].outcome = "granted"
          /\ dl[d1].seen = 1
          /\ dl[d2].outcome # "none"
          /\ ~(dl[d2].outcome = "granted" /\ dl[d2].seen > 1) )
        => /\ dl[d1].last_hit
           /\ dl[d2].outcome = "absent"
           /\ dl[d2].resp = "not_found"

\* The terminal download is still reading while the other request, which
\* came after it, has been answered NotFound.
C1_Witness ==
    \E d1, d2 \in Downloads :
        /\ d1 # d2
        /\ dl[d1].id = dl[d2].id
        /\ dl[d1].pc = "read" /\ dl[d1].seen = 1 /\ dl[d1].last_hit
        /\ dl[d2].outcome = "absent" /\ dl[d2].was_removed
        /\ dl[d2].resp = "not_found"

\* C2: with each granted download the stored remaining_hits goes down by
\* exactly one and never below zero, and the entry is removed exactly at the
\* download that would bring it to 0.
C2_StrictCountdown ==
    [][\A d \in Downloads, id \in Ids :
          (CheckStep(d, id) /\ dl'[d].outcome = "granted") =>
              LET r == entries[id].remaining_hits IN
              /\ r - 1 >= 0
              /\ IF r - 1 = 0
                 THEN ~Has(entries', id)
                 ELSE Has(entries', id) /\ entries'[id].remaining_hits = r - 1]_vars

\* C3: the downloads granted for an uploaded entry never exceed the
\* remaining_downloads of its upload response.
C3_GrantsWithinBudget ==
    \A u \in Uploads :
        up[u].resp = "ok" => granted[u] <= up[u].remaining_downloads

\* C4: a download that inspects an entry at now >= expires_at is not granted,
\* whatever budget remains: the entry is removed, its file is handed to
\* delete_file, and the request returns NotFound.
C4_ExpiredNeverGranted ==
    [][/\ \A d \in Downloads, id \in Ids :
            (CheckStep(d, id) /\ Has(entries, id)
                /\ clock >= entries[id].expires_at) =>
               /\ ~Has(entries', id)
               /\ granted' = granted
               /\ dl'[d].pc = "delete_expired"
               /\ dl'[d].path = entries[id].path
       /\ \A d \in Downloads :
            (dl[d].pc = "delete_expired" /\ dl'[d].pc # "delete_expired") =>
               /\ files'[dl[d].path] = "none" \/ dl[d].path \in undeleted'
               /\ dl'[d].pc = "idle"
               /\ dl'[d].resp = "not_found"]_vars

\* An expired entry with budget left was refused and its file deleted.
C4_Witness ==
    \E d \in Downloads :
        /\ dl[d].outcome = "expired" /\ dl[d].seen >= 1
        /\ dl[d].pc = "idle" /\ dl[d].resp = "not_found"
        /\ files[dl[d].path] = "none"
        /\ up[dl[d].id].expires_at <= clock

\* C5: once an entry has been removed from the registry it never comes back,
\* and every download that enters the critical section afterwards finds no
\* entry and returns NotFound, also while the file is still on disk.
C5_RemovedStaysGone ==
    /\ \A id \in removed : ~Has(entries, id)
    /\ \A d \in Downloads :
          dl[d].was_removed =>
              /\ dl[d].outcome = "absent"
              /\ dl[d].pc = "idle"
              /\ dl[d].resp = "not_found"

\* A download of a removed entry was refused while its file was still there.
C5_Witness ==
    \E d \in Downloads :
        /\ dl[d].was_removed
        /\ dl[d].resp = "not_found"
        /\ files[dl[d].id] = "full"
\* C6: the sweeper never deletes the file of an entry while a download that
\* was granted for that entry has still to read it.
C6_SweepSparesReaders ==
    [][(sw.pc = "delete" /\ sw'.pc = "relock" /\ files'[sw.path] # files[sw.path]) =>
          \A d \in Downloads : ~(dl[d].pc = "read" /\ dl[d].path = sw.path)]_vars

\* An entry of the registry that is past its deadline and that no download
\* was granted for.
Overdue(id) ==
    /\ Has(entries, id)
    /\ entries[id].expires_at <= clock
    /\ granted[id] = 0

\* C7 as claimed: an entry that is never downloaded and is past its deadline
\* is eventually out of the registry with its backing file deleted.
C7_SweptAndDeleted ==
    \A id \in Ids : Overdue(id) ~> (~Has(entries, id) /\ files[id] = "none")

\* C7 as it holds: a sweep that scans at now >= expires_at with the entry in
\* the registry removes it before it ends, the entry is eventually out of the
\* registry, and delete_file is called on the backing file: the file is gone
\* unless that call fails.
C7_SweptAndDeleteTried ==
    /\ [][/\ (sw.pc = "lock" /\ sw'.pc # "lock") =>
               \A id \in DOMAIN entries :
                   entries[id].expires_at <= sw.now =>
                       ~Has(entries', id) \/ id \in sw'.expired
          /\ (sw.pc # "idle" /\ sw'.pc = "idle") => sw.expired = {}
          /\ \A id \in sw.expired : id \in sw'.expired \/ ~Has(entries', id)]_vars
    /\ \A id \in Ids :
          Overdue(id) ~> (~Has(entries, id) /\ (files[id] = "none" \/ id \in undeleted))

\* The sweeper removed an entry nobody downloaded and deleted its file.
C7_Witness ==
    /\ sw.pc = "relock"
    /\ sw.path \in removed
    /\ granted[sw.path] = 0
    /\ up[sw.path].expires_at <= sw.now
    /\ files[sw.path] = "none"

\* C8: with the upload surface enabled, an upload whose password is wrong or
\* missing fails with Unauthorized, writes no file and inserts no entry.
C8_BadSecretRejected ==
    upload_page_enabled =>
        \A u \in Uploads :
            (up[u].pc # "idle" /\ ~up[u].authentic) =>
                /\ up[u].resp = "unauthorized"
                /\ files[u] = "none"
                /\ ~Has(entries, u)

\* C9: an upload whose write fails returns the storage error, is never
\* inserted, and leaves every entry of the registry as it was.
C9_FailedWriteLeavesRegistry ==
    [][\A u \in Uploads :
          up'[u].written \in {"none", "partial"} =>
              /\ up'[u].pc = "done"
              /\ up'[u].resp = "io_error"
              /\ ~Has(entries', u)
              /\ u \notin removed'
              /\ up[u].written = "unset" => entries' = entries]_vars

\* A write failed half way while another upload's entry was in the registry.
C9_Witness ==
    \E u, v \in Uploads :
        /\ u # v
        /\ up[u].resp = "io_error" /\ files[u] = "partial"
        /\ Has(entries, v)

\* C10: every entry of the registry has its backing file fully written and
\* still in storage.
C10_EntryHasFile ==
    \A id \in DOMAIN entries : files[entries[id].path] = "full"

\* An entry is live while the sweeper is deleting the file of another.
C10_Witness ==
    \E id \in DOMAIN entries :
        /\ sw.pc = "relock"
        /\ sw.path # id
        /\ files[sw.path] = "none"
        /\ files[id] = "full"

\* C11: an insert under an identifier that is already in the registry fails
\* with Conflict and leaves the entry that is there as it was.
C11_CreateConflicts ==
    [][\A u \in Uploads :
          (up[u].pc = "lock" /\ up'[u].pc = "done" /\ Has(entries, up[u].id)) =>
              /\ up'[u].resp = "conflict"
              /\ entries' = entries]_vars

\* C12: no task does file I/O while it holds the registry lock: not the
\* sweeper at delete_file, not a download at fs::read or delete_file, not an
\* upload at fs::write.
C12_NoIoUnderLock ==
    /\ [](sw.pc = "delete" => lock # <<"sweeper", 0>>)
    /\ [](\A d \in Downloads :
            dl[d].pc \in {"read", "delete_expired", "delete_last"} =>
                lock # <<"download", d>>)
    /\ [][\A u \in Uploads :
            (up[u].pc = "idle" /\ up'[u].written # "unset") =>
                (lock # <<"upload", u>> /\ lock' # <<"upload", u>>)]_vars

\* The sweeper is at delete_file, a download at fs::read and an upload has
\* written its payload and waits for the lock.
C12_Witness ==
    /\ sw.pc = "delete"
    /\ \E d \in Downloads : dl[d].pc = "read"
    /\ \E u \in Uploads : up[u].pc = "lock" /\ files[up[u].id] = "full"

\* The request of worker d took its entry out of the registry.
DidRemove(d) == dl[d].outcome = "expired" \/ (dl[d].outcome = "granted" /\ dl[d].last_hit)

\* C13: the task that removes an entry then issues delete_file on its file,
\* on every path: a download that removed an entry ends only by its
\* delete_file step, and a removal by the sweeper leads it to delete_file on
\* that path.
C13_RemovalThenDelete ==
    [][/\ \A d \in Downloads :
             (dl[d].pc # "idle" /\ dl'[d].pc = "idle" /\ DidRemove(d)) =>
                 dl[d].pc \in {"delete_expired", "delete_last"}
       /\ \A id \in Ids :
             (Has(entries, id) /\ ~Has(entries', id) /\ sw' # sw) =>
                 (sw'.pc = "delete" /\ sw'.path = entries[id].path)]_vars

\* The paths worker d is about to call delete_file on.
DlDeleting(d) ==
    IF dl[d].pc \in {"delete_expired", "delete_last"} THEN {dl[d].path} ELSE {}

\* C14: a delete of a backing file is issued by one task only: never are the
\* sweeper and a download, or two downloads, both at delete_file for the
\* same path.
C14_OneDeleter ==
    /\ \A d \in Downloads : sw.pc = "delete" => sw.path \notin DlDeleting(d)
    /\ \A d1, d2 \in Downloads : d1 # d2 => DlDeleting(d1) \cap DlDeleting(d2) = {}

\* C15: a delete_file on a file that is already absent is a success: nothing
\* is reported, the download that issued it ends as it does after a delete
\* that removed the file, the sweeper goes on with the pairs it has left, and
\* the registry and the storage are as before.
C15_AbsentDeleteIsSuccess ==
    [][/\ \A d \in Downloads :
             (dl[d].pc \in {"delete_expired", "delete_last"} /\ dl'[d] # dl[d]
                /\ files[dl[d].path] = "none") =>
                 /\ dl'[d].pc = "idle"
                 /\ dl'[d].resp = IF dl[d].pc = "delete_last" THEN "ok" ELSE "not_found"
                 /\ UNCHANGED <<entries, files, undeleted>>
       /\ (sw.pc = "delete" /\ sw' # sw /\ files[sw.path] = "none") =>
             /\ sw'.pc = "relock"
             /\ sw'.expired = sw.expired
             /\ UNCHANGED <<entries, files, undeleted>>]_vars

\* The sweeper and a download on expiry have both called delete_file on the
\* same path and neither call failed: the later one found the file absent.
C15_Witness ==
    \E d \in Downloads :
        /\ sw.pc = "relock"
        /\ dl[d].pc = "idle" /\ dl[d].outcome = "expired" /\ dl[d].resp = "not_found"
        /\ dl[d].path = sw.path
        /\ files[sw.path] = "none"
        /\ sw.path \notin undeleted

\* A finished request of worker d that was not granted.
Refused(d) == dl[d].pc = "idle" /\ dl[d].outcome \in {"absent", "expired"}

\* The causes of a refusal: the id was never in the registry; its entry was
\* taken out by the download that used up its budget; its entry was past
\* the deadline, still in the registry or taken out on expiry before.
NeverCreated(d) == dl[d].outcome = "absent" /\ ~dl[d].was_removed

Exhausted(d) ==
    /\ dl[d].outcome = "absent"
    /\ dl[d].was_removed
    /\ granted[dl[d].id] >= 1
    /\ granted[dl[d].id] >= config.max_downloads

WasExpired(d) ==
    \/ dl[d].outcome = "expired"
    \/ dl[d].outcome = "absent" /\ dl[d].was_removed /\ ~Exhausted(d)

\* C16: a download of an id never created, of an expired one and of an
\* exhausted one all answer 404 "file not found": any two refused requests
\* carry the same response, whatever their causes.
C16_RefusalsAlike ==
    \A d1, d2 \in Downloads :
        (Refused(d1) /\ Refused(d2)) =>
            /\ NeverCreated(d1) \/ Exhausted(d1) \/ WasExpired(d1)
            /\ IntoResponse(dl[d1].resp) = <<404, "file not found">>
            /\ IntoResponse(dl[d1].resp) = IntoResponse(dl[d2].resp)

\* One request was refused for an exhausted budget and another for an expired
\* entry whose file could not be deleted.
C16_Witness ==
    \E d1, d2 \in Downloads :
        /\ Refused(d1) /\ Exhausted(d1)
        /\ Refused(d2) /\ dl[d2].outcome = "expired" /\ dl[d2].path \in undeleted

\* C17: expires_at is computed at upload as now + ttl, the entry is inserted
\* with that value, and no later step changes it: a granted download removes
\* the entry or lowers remaining_hits by one and changes nothing else.
C17_DeadlineFixed ==
    [][/\ \A u \in Uploads :
             (up[u].pc = "idle" /\ up'[u].pc = "lock") =>
                 up'[u].expires_at = clock + config.ttl
       /\ \A u \in Uploads :
             (up[u].pc = "lock" /\ up'[u].pc = "done") =>
                 /\ Has(entries', up[u].id)
                 /\ entries'[up[u].id].expires_at = up[u].expires_at
       /\ \A id \in Ids :
             (Has(entries, id) /\ Has(entries', id)) =>
                 entries'[id].expires_at = entries[id].expires_at
       /\ \A d \in Downloads, id \in Ids :
             (CheckStep(d, id) /\ dl'[d].outcome = "granted") =>
                 \/ entries' = MapRemove(entries, id)
                 \/ entries' = [entries EXCEPT ![id].remaining_hits = @ - 1]]_vars

\* An entry was downloaded, the clock has moved on since its upload, and it is
\* in the registry with the deadline its upload computed.
C17_Witness ==
    \E id \in DOMAIN entries :
        /\ granted[id] >= 1
        /\ entries[id].remaining_hits < config.max_downloads
        /\ entries[id].expires_at = up[id].expires_at
        /\ clock >= entries[id].expires_at
        /\ config.ttl > 0

\* The sweeper has removed an entry of its list and has others still to
\* remove.
MidSweep == sw.pc \in {"delete", "relock"} /\ sw.expired # {}

\* C18: a sweep removes its expired entries atomically: between its first
\* and its last removal no upload inserts and no download runs its critical
\* section.
C18_SweepAtomic ==
    [][MidSweep =>
          /\ \A u \in Uploads : ~(up[u].pc = "lock" /\ up'[u].pc = "done")
          /\ \A d \in Downloads : ~(dl[d].pc = "idle" /\ dl'[d] # dl[d])]_vars

\* C19: the budget is consumed when the download is granted, before the
\* read, and stays consumed whatever the read does: from the grant on, and
\* after a failed read too, the entry of a last hit is out of the registry
\* and the entry of any other hit has fewer remaining_hits than the grant
\* found.
C19_ConsumedAtGrant ==
    \A d \in Downloads :
        dl[d].outcome = "granted" =>
            IF dl[d].last_hit
            THEN ~Has(entries, dl[d].id)
            ELSE Has(entries, dl[d].id) =>
                     entries[dl[d].id].remaining_hits <= dl[d].seen - 1

\* The read of a granted download failed with the file in place, and the
\* entry is in the registry with the hit taken off.
C19_Witness ==
    \E d \in Downloads :
        /\ dl[d].pc = "idle" /\ dl[d].outcome = "granted" /\ dl[d].resp = "io_error"
        /\ files[dl[d].path] = "full"
        /\ Has(entries, dl[d].id)
        /\ entries[dl[d].id].remaining_hits = dl[d].seen - 1

\* C20: the delete_file of a terminal download never removes the file while
\* a download of the same entry that was granted before it has still to
\* read it, so that every granted download returns the payload.
C20_TerminalSparesReaders ==
    [][\A d \in Downloads :
          (dl[d].pc = "delete_last" /\ dl'[d].pc = "idle"
             /\ files'[dl[d].path] # files[dl[d].path]) =>
              \A e \in Downloads \ {d} :
                  ~(dl[e].pc = "read" /\ dl[e].path = dl[d].path)]_vars
====
